---------------------------- MODULE Spec2Model ----------------------------
(***************************************************************************)
(* A model of src/main.py: the core engine run_stable_hunter (list file    *)
(* parsing, unified download, per-ticker analysis, moving-average backtest *)
(* and gene cache update) and the watchlist handlers that write the list   *)
(* file it reads.                                                          *)
(*                                                                         *)
(* Text is a sequence of tokens: the whitespace token SP, the token HASH,  *)
(* digit and punctuation tokens, and whole ticker symbols.  Prices are     *)
(* positive integers; every float the code computes from them is kept as   *)
(* an exact fraction, or as NaN.                                           *)
(***************************************************************************)
EXTENDS Integers, Sequences, FiniteSets, TLC

\* ------------------------------------------------------------------ bounds

\* Longest list file, in lines.
MaxLines == 2
\* Most data rows the gene cache file may hold (it can grow without limit).
MaxCacheRows == 3
\* Highest close of a generated price series.  Capitals are exact fractions
\* of 32-bit integers: the product of four returns on closes up to 3 no
\* longer fits.
MaxPrice == 2
\* Longest freely chosen stretch of a generated price series.
MaxTail == 4

\* ------------------------------------------------------------------- text

SP == " "
HASH == "#"

\* str.strip(): leading and trailing whitespace removed.
RECURSIVE LStrip(_)
LStrip(l) == IF l # <<>> /\ Head(l) = SP THEN LStrip(Tail(l)) ELSE l

RECURSIVE RStrip(_)
RStrip(l) ==
    IF l # <<>> /\ l[Len(l)] = SP THEN RStrip(SubSeq(l, 1, Len(l) - 1)) ELSE l

Strip(l) == RStrip(LStrip(l))

\* str.startswith("#")
StartsWithHash(l) == l # <<>> /\ Head(l) = HASH

Digits == <<"0", "1", "2", "3", "4", "5", "6", "7", "8", "9">>

\* str(n) of a natural number: its decimal digits.
RECURSIVE IntToStr(_)
IntToStr(n) ==
    IF n < 10 THEN <<Digits[n + 1]>>
    ELSE IntToStr(n \div 10) \o <<Digits[(n % 10) + 1]>>

DigitVal(c) == CHOOSE v \in 0..9 : Digits[v + 1] = c

IsDigit(c) == \E v \in 0..9 : Digits[v + 1] = c

\* Text that pandas' parser reads as an integer.
IsIntText(s) == s # <<>> /\ \A i \in 1..Len(s) : IsDigit(s[i])

RECURSIVE StrToInt(_)
StrToInt(s) ==
    IF s = <<>> THEN 0
    ELSE 10 * StrToInt(SubSeq(s, 1, Len(s) - 1)) + DigitVal(s[Len(s)])

\* ----------------------------------------------------------------- floats

\* A float: NaN, or the exact fraction n/d in lowest terms with d > 0.
NaN == [nan |-> TRUE, n |-> 0, d |-> 1]

RECURSIVE Gcd(_, _)
Gcd(a, b) == IF b = 0 THEN a ELSE Gcd(b, a % b)

Abs(x) == IF x < 0 THEN -x ELSE x

Frac(n, d) ==
    LET g == Gcd(Abs(n), d)
    IN  [nan |-> FALSE, n |-> n \div g, d |-> d \div g]

\* a * b
FMul(a, b) ==
    IF a.nan \/ b.nan THEN NaN
    ELSE LET g1 == Gcd(Abs(a.n), b.d)
             g2 == Gcd(Abs(b.n), a.d)
         IN  Frac((a.n \div g1) * (b.n \div g2), (a.d \div g2) * (b.d \div g1))

\* a/b < c/d for naturals a, c and positive b, d, without a product that
\* could leave the integer range.
RECURSIVE FracLess(_, _, _, _)
FracLess(a, b, c, d) ==
    LET qa == a \div b
        qc == c \div d
        ra == a % b
        rc == c % d
    IN  IF qa # qc THEN qa < qc
        ELSE IF rc = 0 THEN FALSE
        ELSE IF ra = 0 THEN TRUE
        ELSE FracLess(d, rc, b, ra)

\* a < b on floats: every comparison with NaN is False.
FLess(a, b) ==
    IF a.nan \/ b.nan THEN FALSE
    ELSE IF a.n < 0 /\ b.n < 0 THEN FracLess(-b.n, b.d, -a.n, a.d)
    ELSE IF a.n < 0 THEN TRUE
    ELSE IF b.n < 0 THEN FALSE
    ELSE FracLess(a.n, a.d, b.n, b.d)

\* a >= b on floats
FGeq(a, b) == ~a.nan /\ ~b.nan /\ ~FLess(a, b)

\* floor(k * r / d) and the remainder, for 0 <= r < d, by doubling.
RECURSIVE MulDiv(_, _, _)
MulDiv(k, r, d) ==
    IF k = 0 THEN [q |-> 0, r |-> 0]
    ELSE LET h == MulDiv(k \div 2, r, d)
             c1 == IF 2 * h.r >= d THEN 1 ELSE 0
             q2 == 2 * h.q + c1
             r2 == 2 * h.r - c1 * d
             c2 == IF r2 + r >= d THEN 1 ELSE 0
         IN  IF k % 2 = 0 THEN [q |-> q2, r |-> r2]
             ELSE [q |-> q2 + c2, r |-> r2 + r - c2 * d]


\* --------------------------------------------------------------- backtest

\* A value pandas may hold as NaN: <<>> is NaN, <<x>> is x.
None == <<>>
Some(x) == <<x>>

\* Candidate moving-average windows, in the order they are tried.
Windows == <<10, 20, 60>>

\* The window of a ticker without a cache record.
DefaultWindow == 20

\* Fixed transaction cost per trade, 0.004 = CostNum / CostDen.
CostNum == 4
CostDen == 1000

\* Starting capital of the simulation.
StartCapital == 100

RECURSIVE SumTo(_, _, _)
SumTo(closes, lo, hi) ==
    IF hi < lo THEN 0 ELSE closes[hi] + SumTo(closes, lo, hi - 1)

\* df_strat after the rolling mean, dropna and the four derived columns:
\* one row per close from the p-th on.  sum is the sum of the p closes
\* ending at row i, so Close > ma is Close * p > sum.
RECURSIVE StratRows(_, _, _, _, _)
StratRows(closes, p, i, sum, rows) ==
    IF i > Len(closes) THEN rows
    ELSE LET above == IF closes[i] * p > sum THEN 1 ELSE 0
             change == IF rows = <<>> THEN None
                       ELSE Some(above - rows[Len(rows)].above_ma)
             buy == IF change = Some(1) THEN Some(closes[i]) ELSE None
             held == IF buy # None THEN buy
                     ELSE IF rows = <<>> THEN None
                     ELSE rows[Len(rows)].entry_price_held
             row == [Close |-> closes[i], above_ma |-> above,
                     signal_change |-> change, buy_price |-> buy,
                     entry_price_held |-> held]
             next == IF i < Len(closes)
                     THEN sum + closes[i + 1] - closes[i + 1 - p] ELSE sum
         IN  StratRows(closes, p, i + 1, next, Append(rows, row))

DfStrat(closes, p) ==
    IF Len(closes) < p THEN <<>>
    ELSE StratRows(closes, p, p, SumTo(closes, 1, p), <<>>)

\* (exit - entry) / entry - 0.004
TradeReturn(exit, entry) ==
    Frac(CostDen * (exit - entry) - CostNum * entry, CostDen * entry)

IsSell(row) == row.signal_change = Some(-1)
IsBuy(row) == row.signal_change = Some(1)

\* The returns of the rows that leave the average: NaN where no entry price
\* is held, and none at all when no such row holds an entry price.
ClosedReturns(strat) ==
    LET trades == SelectSeq(strat, IsSell)
    IN  IF trades # <<>>
           /\ ~(\A i \in 1..Len(trades) : trades[i].entry_price_held = None)
        THEN [i \in 1..Len(trades) |->
                 IF trades[i].entry_price_held = None THEN NaN
                 ELSE TradeReturn(trades[i].Close,
                                  trades[i].entry_price_held[1])]
        ELSE <<>>

\* The position still open on the last row, marked at the last close.
OpenReturns(strat) ==
    IF strat # <<>> /\ strat[Len(strat)].above_ma = 1
    THEN LET buys == SelectSeq(strat, IsBuy)
         IN  IF buys # <<>> /\ buys[Len(buys)].Close # 0
             THEN <<TradeReturn(strat[Len(strat)].Close,
                                buys[Len(buys)].Close)>>
             ELSE <<>>
    ELSE <<>>

\* trade_profits_pct of one window
TradeProfits(strat) == ClosedReturns(strat) \o OpenReturns(strat)

\* 1 + prof
OnePlus(prof) == IF prof.nan THEN NaN ELSE Frac(prof.n + prof.d, prof.d)

\* np.prod of the list [1 + prof for prof in profits]; 1.0 when it is empty
RECURSIVE Prod(_)
Prod(profits) ==
    IF profits = <<>> THEN Frac(1, 1)
    ELSE FMul(Prod(SubSeq(profits, 1, Len(profits) - 1)),
              OnePlus(profits[Len(profits)]))

\* current_capital
CurrentCapital(profits) == FMul(Frac(StartCapital, 1), Prod(profits))

\* battle: (p, current_capital) of every window with at least one row
RECURSIVE BattleFrom(_, _)
BattleFrom(closes, k) ==
    IF k > Len(Windows) THEN <<>>
    ELSE LET strat == DfStrat(closes, Windows[k])
         IN  (IF strat = <<>> THEN <<>>
              ELSE <<<<Windows[k], CurrentCapital(TradeProfits(strat))>>>>)
             \o BattleFrom(closes, k + 1)

Battle(closes) == BattleFrom(closes, 1)

\* trade_profits_pct of every candidate window, in the order they are tried
TradeProfitsAll(closes) ==
    [k \in 1..Len(Windows) |-> TradeProfits(DfStrat(closes, Windows[k]))]

\* ------------------------------------------------- sorted(..., reverse=True)

Reverse(s) == [i \in 1..Len(s) |-> s[Len(s) + 1 - i]]

\* x[1] < y[1], the only comparison list.sort makes
KeyLess(x, y) == FLess(x[2], y[2])

\* Length of the run the list starts with; desc says it is strictly falling.
RECURSIVE RunLen(_, _, _)
RunLen(s, n, desc) ==
    IF n >= Len(s) THEN n
    ELSE IF KeyLess(s[n + 1], s[n]) = desc THEN RunLen(s, n + 1, desc)
    ELSE n

\* Binary insertion of pivot into the sorted list s, searching [l, r).
RECURSIVE InsertAt(_, _, _, _)
InsertAt(s, pivot, l, r) ==
    IF l >= r
    THEN SubSeq(s, 1, l) \o <<pivot>> \o SubSeq(s, l + 1, Len(s))
    ELSE LET m == l + ((r - l) \div 2)
         IN  IF KeyLess(pivot, s[m + 1]) THEN InsertAt(s, pivot, l, m)
             ELSE InsertAt(s, pivot, m + 1, r)

RECURSIVE BinarySort(_, _)
BinarySort(done, rest) ==
    IF rest = <<>> THEN done
    ELSE BinarySort(InsertAt(done, Head(rest), 0, Len(done)), Tail(rest))

\* list.sort on a short list: the leading run, then binary insertion.
SortAsc(s) ==
    IF Len(s) < 2 THEN s
    ELSE LET desc == KeyLess(s[2], s[1])
             n == RunLen(s, 2, desc)
             run == IF desc THEN Reverse(SubSeq(s, 1, n)) ELSE SubSeq(s, 1, n)
         IN  BinarySort(run, SubSeq(s, n + 1, Len(s)))

\* sorted(battle, key=lambda x: x[1], reverse=True)
SortedDesc(battle) == Reverse(SortAsc(Reverse(battle)))

\* ------------------------------------------------------------- formatting

\* f"{x:.1f}" of |x| = whole + r/d: tenths, rounded half to even.
Tenths(whole, r, d) ==
    LET m == MulDiv(10, r, d)
        up == 2 * m.r > d \/ (2 * m.r = d /\ (m.q % 2) = 1)
    IN  10 * whole + m.q + (IF up THEN 1 ELSE 0)

\* f"{f_raw-100:.1f}%"
FitText(f_raw) ==
    IF f_raw.nan THEN <<"nan", "%">>
    ELSE LET q == f_raw.n \div f_raw.d
             r == f_raw.n % f_raw.d
             neg == q < StartCapital
             t == IF ~neg THEN Tenths(q - StartCapital, r, f_raw.d)
                  ELSE IF r = 0 THEN Tenths(StartCapital - q, 0, f_raw.d)
                  ELSE Tenths(StartCapital - 1 - q, f_raw.d - r, f_raw.d)
         IN  (IF neg THEN <<"-">> ELSE <<>>)
             \o IntToStr(t \div 10) \o <<".", Digits[(t % 10) + 1], "%">>

\* f"{best_p}d"
WindowText(p) == IntToStr(p) \o <<"d">>

NotAvailable == <<"N/A">>

\* ------------------------------------------------------------------ files

\* A file: missing, or a sequence of lines.
NoFile == [exists |-> FALSE, lines |-> <<>>]
File(lines) == [exists |-> TRUE, lines |-> lines]

\* The market scan list init_system_files writes when there is none.
default_list ==
    << <<"^TWII">>, <<"3481.TW">>, <<"2409.TW">>, <<"3260.TWO">>,
       <<"2408.TW">>, <<"1513.TW">>, <<"1519.TW">>, <<"2330.TW">>,
       <<"2317.TW">>, <<"3017.TW">>, <<"2454.TW">> >>

\* The line run_stable_hunter writes into a missing list file.
ListTemplate == <<HASH, SP, "watchlist">>

\* The content manage_watchlist writes into a missing watchlist.
WatchlistDefault == << ListTemplate, <<"2330.TW">> >>

CacheHeader == << <<"ticker">>, <<"best_p">>, <<"fit">> >>

\* init_system_files, on the pair of files it may create
InitMarketList(f) == IF f.exists THEN f ELSE File(default_list)
InitGeneCache(f) == IF f.exists THEN f ELSE File(<<CacheHeader>>)

\* ---------------------------------------------------------------- the CSV

\* A ticker label that pandas read as missing (a float NaN in the index).
NaNLabel == <<"<NaN>">>
\* Marks a label of a ticker column that pandas read as numbers.
NumTag == "<num>"

\* The cell texts read_csv takes for missing values (keep_default_na).
NaTexts ==
    { <<>>, <<"#N/A">>, <<"#N/A N/A">>, <<"#NA">>, <<"-1.#IND">>,
      <<"-1.#QNAN">>, <<"-NaN">>, <<"-nan">>, <<"1.#IND">>, <<"1.#QNAN">>,
      <<"<NA>">>, <<"N/A">>, <<"NA">>, <<"NULL">>, <<"NaN">>, <<"None">>,
      <<"n/a">>, <<"nan">>, <<"null">> }

\* The column holds numbers only, so pandas reads it as a numeric column.
NumericColumn(lines, c) ==
    /\ \E i \in 1..Len(lines) : lines[i][c] \notin NaTexts
    /\ \A i \in 1..Len(lines) :
           lines[i][c] \in NaTexts \/ IsIntText(lines[i][c])

ParseLabel(cell, numeric) ==
    IF cell \in NaTexts THEN NaNLabel
    ELSE IF numeric THEN <<NumTag>> \o cell
    ELSE cell

\* pd.read_csv(GENE_CACHE_FILE).set_index('ticker'): one record per data
\* line; a missing file gives the empty frame.
ReadCsv(f) ==
    IF ~f.exists \/ f.lines = <<>> THEN <<>>
    ELSE LET data == Tail(f.lines)
             numeric == NumericColumn(data, 1)
         IN  [i \in 1..Len(data) |->
                 [ticker |-> ParseLabel(data[i][1], numeric),
                  best_p |-> StrToInt(data[i][2]),
                  fit |-> data[i][3]]]

LabelText(label) ==
    IF label = NaNLabel THEN <<>>
    ELSE IF label # <<>> /\ Head(label) = NumTag THEN Tail(label)
    ELSE label

\* DataFrame.to_csv(GENE_CACHE_FILE)
ToCsv(frame) ==
    File(<<CacheHeader>> \o
         [i \in 1..Len(frame) |->
             <<LabelText(frame[i].ticker), IntToStr(frame[i].best_p),
               frame[i].fit>>])

\* The records of cache_df whose index label is ticker.
Located(cache_df, ticker) ==
    LET Hit(r) == r.ticker = ticker IN SelectSeq(cache_df, Hit)

\* pd.concat([cache_df[~cache_df.index.isin(new_df.index)], new_df])
UpdatedCache(cache_df, new_cache) ==
    LET Kept(r) == \A j \in 1..Len(new_cache) : new_cache[j].ticker # r.ticker
    IN  SelectSeq(cache_df, Kept) \o new_cache

\* ----------------------------------------------------------------- engine

Modes == {"DAILY", "WEEKLY", "MARKET", "MARKET_BACKTEST", "QUICK_SCAN"}

\* analysis_mode
AnalysisMode(mode) ==
    IF mode \in {"MARKET_BACKTEST", "WEEKLY"} THEN "WEEKLY" ELSE "DAILY"

\* mode.startswith('MARKET') or mode == 'QUICK_SCAN'
IsMarketScan(mode) ==
    mode \in {"MARKET", "MARKET_BACKTEST"} \/ mode = "QUICK_SCAN"

\* list_file, by name
ListFileOf(mode) ==
    IF mode = "QUICK_SCAN" THEN "MARKET_SCAN_LIST_FILE"
    ELSE IF IsMarketScan(mode) THEN "MARKET_SCAN_LIST_FILE"
    ELSE "WATCHLIST_FILE"

TWII == <<"^TWII">>

\* A faulty reading of the list: the test for "#" is left out.
RECURSIVE ParseTargetsKeepComments(_)
ParseTargetsKeepComments(lines) ==
    IF lines = <<>> THEN <<>>
    ELSE (IF Strip(Head(lines)) # <<>> THEN <<Strip(Head(lines))>> ELSE <<>>)
         \o ParseTargetsKeepComments(Tail(lines))

\* [l.strip() for l in f if l.strip() and not l.startswith("#")]
RECURSIVE ParseTargets(_)
ParseTargets(lines) ==
    IF lines = <<>> THEN <<>>
    ELSE (IF Strip(Head(lines)) # <<>> /\ ~StartsWithHash(Head(lines))
          THEN <<Strip(Head(lines))>> ELSE <<>>)
         \o ParseTargets(Tail(lines))

\* list.remove(x): the first occurrence goes
RECURSIVE RemoveFirst(_, _)
RemoveFirst(s, x) ==
    IF s = <<>> THEN <<>>
    ELSE IF Head(s) = x THEN Tail(s)
    ELSE <<Head(s)>> \o RemoveFirst(Tail(s), x)

Elems(s) == {s[i] : i \in 1..Len(s)}

\* targets, after ^TWII is dropped from a list of several
Targets(lines) ==
    LET parsed == ParseTargets(lines)
    IN  IF Len(parsed) > 1 /\ TWII \in Elems(parsed)
        THEN RemoveFirst(parsed, TWII) ELSE parsed

\* Rows of history a download period covers; "5y" covers every history
\* of the model.
PeriodRows(mode, history) ==
    IF AnalysisMode(mode) = "WEEKLY" THEN Len(history)
    ELSE IF mode = "QUICK_SCAN" THEN 2
    ELSE 60

LastRows(history, n) ==
    IF Len(history) <= n THEN history
    ELSE SubSeq(history, Len(history) - n + 1, Len(history))

\* What the data source holds for a ticker: nothing, unless it is quoted.
Quote(mkt, ticker) ==
    IF Len(ticker) = 1 /\ ticker[1] \in DOMAIN mkt THEN mkt[ticker[1]]
    ELSE <<>>

\* yf.download(tickers=targets, period=period, ...): per ticker, the rows
\* left after dropna.
Download(mkt, targets, mode) ==
    [t \in Elems(targets) |->
        LastRows(Quote(mkt, t), PeriodRows(mode, Quote(mkt, t)))]

\* yf.download takes each symbol once, and groups the columns by ticker only
\* when more than one symbol is left.
Grouped(targets) == Cardinality(Elems(targets)) > 1

\* all_data.empty
FrameEmpty(frame) == \A t \in DOMAIN frame : frame[t] = <<>>

\* all_data[ticker] for several targets, all_data itself for one
Df(frame, targets, ticker) ==
    IF Len(targets) > 1 THEN frame[ticker] ELSE frame[targets[1]]

Closes(df) == [i \in 1..Len(df) |-> df[i].Close]

\* get_sector_label, on the tickers whose code it names
SectorLabel(ticker) ==
    IF ticker \in {<<"3481.TW">>, <<"2409.TW">>} THEN "[panel]"
    ELSE IF ticker \in {<<"3260.TWO">>, <<"2408.TW">>} THEN "[memory]"
    ELSE IF ticker \in {<<"1513.TW">>, <<"1519.TW">>} THEN "[power]"
    ELSE IF ticker \in {<<"2330.TW">>, <<"2454.TW">>, <<"3017.TW">>,
                        <<"2317.TW">>} THEN "[ai]"
    ELSE "[hot]"

ErrorStatus == "ERROR_STATUS"
Strong == "STRONG"
Weak == "WEAK"

\* The row the engine reports for a ticker it could not analyse.
ErrorRow(ticker, message) ==
    [name |-> <<"FAILED: ">> \o ticker, p |-> NotAvailable,
     fit |-> NotAvailable, status |-> ErrorStatus, signal |-> "Data Error",
     sector |-> "ERROR", order_error |-> message]

\* last_p > df['Close'].rolling(best_p).mean().iloc[-1]; the mean of fewer
\* than best_p rows is NaN and the comparison False.
AboveAverage(df, best_p) ==
    /\ Len(df) >= best_p
    /\ df[Len(df)].Close * best_p
         > SumTo(Closes(df), Len(df) - best_p + 1, Len(df))

StatusOf(df, best_p) == IF AboveAverage(df, best_p) THEN Strong ELSE Weak

SignalOf(df, best_p) ==
    IF /\ df[Len(df)].Close > df[Len(df)].Open
       /\ Len(df) > 1
       /\ df[Len(df)].Volume > df[Len(df) - 1].Volume
       /\ StatusOf(df, best_p) = Strong
    THEN "AMBUSH" ELSE "WATCH"

ResultRow(ticker, df, best_p, fit_val) ==
    [name |-> <<SectorLabel(ticker)>> \o ticker, p |-> WindowText(best_p),
     fit |-> fit_val, status |-> StatusOf(df, best_p),
     signal |-> SignalOf(df, best_p), sector |-> SectorLabel(ticker),
     order_error |-> ""]

\* The red candle on rising volume QUICK_SCAN looks for:
\* Close > Open and Volume > 1.2 * previous Volume.
QuickHit(df) ==
    /\ df[Len(df)].Close > df[Len(df)].Open
    /\ 10 * df[Len(df)].Volume > 12 * df[Len(df) - 1].Volume

Skipped ==
    [kind |-> "skip", row |-> <<>>, cached |-> <<>>, battle |-> <<>>,
     trade_profits |-> <<>>]
Failed(ticker, message) ==
    [kind |-> "error", row |-> <<ErrorRow(ticker, message)>>,
     cached |-> <<>>, battle |-> <<>>, trade_profits |-> <<>>]

\* The weekly branch: the backtest of every window and the best of them.
WeeklyAnalysis(ticker, df) ==
    LET battle == Battle(Closes(df))
        best == SortedDesc(battle)[1]
    IN  IF battle = <<>>
        THEN [Failed(ticker, "Could not perform weekly backtest.")
                 EXCEPT !.trade_profits = TradeProfitsAll(Closes(df))]
        ELSE [kind |-> "row",
              row |-> <<ResultRow(ticker, df, best[1], FitText(best[2]))>>,
              cached |-> <<[ticker |-> ticker, best_p |-> best[1],
                            fit |-> FitText(best[2])]>>,
              battle |-> battle,
              trade_profits |-> TradeProfitsAll(Closes(df))]

\* The daily branch: the cached window and fitness, or 20 and "N/A".  Two
\* records under one label make .loc return a Series, and int() raises.
DailyAnalysis(ticker, df, cache_df) ==
    LET hits == Located(cache_df, ticker)
    IN  IF hits = <<>>
        THEN [kind |-> "row",
              row |-> <<ResultRow(ticker, df, DefaultWindow, NotAvailable)>>,
              cached |-> <<>>, battle |-> <<>>, trade_profits |-> <<>>]
        ELSE IF Len(hits) > 1
        THEN Failed(ticker, "cannot convert the series to <class 'int'>")
        ELSE [kind |-> "row",
              row |-> <<ResultRow(ticker, df, hits[1].best_p, hits[1].fit)>>,
              cached |-> <<>>, battle |-> <<>>, trade_profits |-> <<>>]

\* A faulty pass: a ticker the cache knows is backtested on its cached
\* window alone.
AnalyseCachedWindowOnly(mode, ticker, df, cache_df) ==
    LET hits == Located(cache_df, ticker)
        Cached(e) == e[1] = hits[1].best_p
    IN  IF df = <<>>
        THEN Failed(ticker, "DataFrame for this ticker is empty or all NaN.")
        ELSE IF mode = "QUICK_SCAN" /\ (Len(df) < 2 \/ ~QuickHit(df))
        THEN Skipped
        ELSE IF AnalysisMode(mode) = "WEEKLY"
        THEN IF hits = <<>> THEN WeeklyAnalysis(ticker, df)
             ELSE [WeeklyAnalysis(ticker, df)
                      EXCEPT !.battle = SelectSeq(@, Cached)]
        ELSE DailyAnalysis(ticker, df, cache_df)

\* One pass of the analysis loop.
Analyse(mode, ticker, df, cache_df) ==
    IF df = <<>>
    THEN Failed(ticker, "DataFrame for this ticker is empty or all NaN.")
    ELSE IF mode = "QUICK_SCAN" /\ (Len(df) < 2 \/ ~QuickHit(df))
    THEN Skipped
    ELSE IF AnalysisMode(mode) = "WEEKLY" THEN WeeklyAnalysis(ticker, df)
    ELSE DailyAnalysis(ticker, df, cache_df)

\* The analysis loop over targets.  all_data[ticker] raises KeyError when
\* several targets name one symbol, for the frame is then not grouped.
AnalyseAll(mode, targets, frame, cache_df) ==
    [i \in 1..Len(targets) |->
        IF Len(targets) > 1 /\ ~Grouped(targets)
        THEN Failed(targets[i], "KeyError")
        ELSE Analyse(mode, targets[i], Df(frame, targets, targets[i]),
                     cache_df)]

RECURSIVE Flatten(_)
Flatten(ss) == IF ss = <<>> THEN <<>> ELSE Head(ss) \o Flatten(Tail(ss))

\* results and new_cache, as the loop appends them
ResultsOf(passes) == Flatten([i \in 1..Len(passes) |-> passes[i].row])
NewCacheOf(passes) == Flatten([i \in 1..Len(passes) |-> passes[i].cached])

\* A faulty error_results: a single row, for the first target only.
ErrorResultsFirstOnly(targets, message) ==
    <<ErrorRow(targets[1], message)>>

\* error_results of a failed download
ErrorResults(targets, message) ==
    [i \in 1..Len(targets) |-> ErrorRow(targets[i], message)]

\* ------------------------------------------------------------------ state

VARIABLES
    watchlist_file,          \* WATCHLIST_FILE
    market_scan_list_file,   \* MARKET_SCAN_LIST_FILE
    gene_cache_file,         \* GENE_CACHE_FILE
    market,                  \* the price history the data source holds
    mode,                    \* the mode of the last request, "NONE" if it
                             \* was not a run of the engine
    targets,                 \* its targets
    download,                \* "none", "raised", "empty" or "ok"
    all_data,                \* what yf.download returned
    cache_df,                \* the gene cache as the run read it
    passes,                  \* what each pass of the analysis loop did
    results,                 \* the rows the run returned
    new_cache                \* the records the run collected for the cache

files == <<watchlist_file, market_scan_list_file, gene_cache_file>>
locals == <<mode, targets, download, all_data, cache_df, passes, results,
            new_cache>>
vars == <<files, market, locals>>

\* ------------------------------------------------------------------ inputs

Rep(x, n) == [i \in 1..n |-> x]

\* A day's bar; the last day may be a red candle on rising volume.
FlatBar(c) == [Open |-> c, Close |-> c, Volume |-> 10]
SurgeBar(c) == [Open |-> c - 1, Close |-> c, Volume |-> 13]

History(closes, surge) ==
    [i \in 1..Len(closes) |->
        IF surge /\ i = Len(closes) THEN SurgeBar(closes[i])
        ELSE FlatBar(closes[i])]

\* The lines a list file is made of: blank, comment, indented "#", tickers.
LineKinds ==
    { <<SP>>, <<HASH, SP, "note">>, <<SP, HASH>>, <<"2330.TW">>,
      <<SP, "NA", SP>>, TWII }

\* A list that names a ticker twice, beside another.
RepeatedList == << <<"2330.TW">>, <<"2330.TW">>, <<SP, "NA", SP>> >>

\* The contents a list file may be given.
Contents ==
    UNION {[1..k -> LineKinds] : k \in 0..MaxLines} \cup {RepeatedList}

\* The histories of the full system's data source: none, three days, and a
\* steady rise (window 10 wins).
NoHistory == <<>>
ShortHistory == History(<<1, 1, 2>>, TRUE)
RiseHistory ==
    History(Rep(1, 10) \o Rep(2, 5) \o Rep(3, 5) \o Rep(4, 3), TRUE)

SysMarkets ==
    { [s \in {"2330.TW", "NA"} |-> IF s = "NA" THEN b ELSE a] :
        a \in {ShortHistory, RiseHistory},
        b \in {NoHistory, RiseHistory} }

\* The generated series of the backtest: a flat lead-in, a free stretch
\* and a flat lead-out.
WarmUps == {0, 9, 19, 59}
CoolDowns == {0, 10}
Stretches == UNION {[1..k -> 1..MaxPrice] : k \in 0..MaxTail}

GeneratedSeries ==
    { Rep(b, w) \o t \o Rep(b, c) :
        b \in 1..MaxPrice, w \in WarmUps, t \in Stretches, c \in CoolDowns }

\* ---------------------------------------------------------------- actions

NoRun ==
    /\ mode' = "NONE"
    /\ targets' = <<>>
    /\ download' = "none"
    /\ all_data' = <<>>
    /\ cache_df' = <<>>
    /\ passes' = <<>>
    /\ results' = <<>>
    /\ new_cache' = <<>>

\* run_stable_hunter(mode); fails says that yf.download raises.
RunStableHunter(m, fails) ==
    LET mfile == InitMarketList(market_scan_list_file)
        cfile == InitGeneCache(gene_cache_file)
        on_market == ListFileOf(m) = "MARKET_SCAN_LIST_FILE"
        found == IF on_market THEN mfile ELSE watchlist_file
        lfile == IF found.exists THEN found ELSE File(<<ListTemplate>>)
        tg == Targets(lfile.lines)
        cdf == ReadCsv(cfile)
        frame == Download(market, tg, m)
        failed == fails \/ FrameEmpty(frame)
        message == IF fails THEN "download raised"
                   ELSE "yf.download returned an empty DataFrame."
        pp == AnalyseAll(m, tg, frame, cdf)
        analysed == tg # <<>> /\ ~failed
        nc == IF analysed THEN NewCacheOf(pp) ELSE <<>>
        written == IF nc # <<>> THEN ToCsv(UpdatedCache(cdf, nc)) ELSE cfile
    IN  /\ tg = <<>> => ~fails
        /\ Len(written.lines) <= MaxCacheRows + 1
        /\ market_scan_list_file' = mfile
        /\ watchlist_file' = IF on_market THEN watchlist_file ELSE lfile
        /\ gene_cache_file' = written
        /\ mode' = m
        /\ targets' = tg
        /\ download' = IF tg = <<>> THEN "none"
                       ELSE IF fails THEN "raised"
                       ELSE IF FrameEmpty(frame) THEN "empty" ELSE "ok"
        /\ all_data' = IF tg = <<>> \/ fails THEN <<>> ELSE frame
        /\ cache_df' = IF tg = <<>> THEN <<>> ELSE cdf
        /\ passes' = IF analysed THEN pp ELSE <<>>
        /\ results' = IF tg = <<>> THEN <<>>
                      ELSE IF failed THEN ErrorResults(tg, message)
                      ELSE ResultsOf(pp)
        /\ new_cache' = nc
        /\ UNCHANGED market

\* manage_watchlist, POST: the form's content replaces the watchlist.
ManageWatchlistPost(content) ==
    /\ market_scan_list_file' = InitMarketList(market_scan_list_file)
    /\ gene_cache_file' = InitGeneCache(gene_cache_file)
    /\ watchlist_file' = File(content)
    /\ NoRun
    /\ UNCHANGED market

\* manage_watchlist, GET: a missing watchlist is created with its default.
ManageWatchlistGet ==
    /\ market_scan_list_file' = InitMarketList(market_scan_list_file)
    /\ gene_cache_file' = InitGeneCache(gene_cache_file)
    /\ watchlist_file' = IF watchlist_file.exists THEN watchlist_file
                         ELSE File(WatchlistDefault)
    /\ NoRun
    /\ UNCHANGED market

\* --------------------------------------------------------- specifications

Fresh ==
    /\ watchlist_file = NoFile
    /\ market_scan_list_file = NoFile
    /\ gene_cache_file = NoFile
    /\ mode = "NONE"
    /\ targets = <<>>
    /\ download = "none"
    /\ all_data = <<>>
    /\ cache_df = <<>>
    /\ passes = <<>>
    /\ results = <<>>
    /\ new_cache = <<>>

\* The whole application on a fresh /tmp.
Init == Fresh /\ market \in SysMarkets

Next ==
    \/ \E m \in Modes, fails \in BOOLEAN : RunStableHunter(m, fails)
    \/ \E content \in Contents : ManageWatchlistPost(content)
    \/ ManageWatchlistGet

Spec == Init /\ [][Next]_vars

\* The application with one data source and every list content, on a /tmp
\* where the market scan list is missing or has been commented out.
ListsMarket ==
    [s \in {"2330.TW", "NA"} |-> IF s = "NA" THEN NoHistory ELSE RiseHistory]

CommentedOut == File(<< <<HASH, "2330.TW">>, <<SP>> >>)

ListsInit ==
    /\ watchlist_file = NoFile
    /\ market_scan_list_file \in {NoFile, CommentedOut}
    /\ gene_cache_file = NoFile
    /\ mode = "NONE"
    /\ targets = <<>>
    /\ download = "none"
    /\ all_data = <<>>
    /\ cache_df = <<>>
    /\ passes = <<>>
    /\ results = <<>>
    /\ new_cache = <<>>
    /\ market = ListsMarket

SpecLists == ListsInit /\ [][Next]_vars

\* Backtest runs over one listed ticker whose history is any generated
\* series.
BTInit ==
    /\ watchlist_file = File(<< <<"2330.TW">> >>)
    /\ market_scan_list_file = NoFile
    /\ gene_cache_file = NoFile
    /\ mode = "NONE"
    /\ targets = <<>>
    /\ download = "none"
    /\ all_data = <<>>
    /\ cache_df = <<>>
    /\ passes = <<>>
    /\ results = <<>>
    /\ new_cache = <<>>
    /\ \E series \in GeneratedSeries :
           market = [s \in {"2330.TW", "NA"} |->
                        IF s = "NA" THEN NoHistory
                        ELSE History(series, FALSE)]

BTNext == \E m \in {"WEEKLY", "MARKET_BACKTEST"} : RunStableHunter(m, FALSE)

SpecBT == BTInit /\ [][BTNext]_vars

\* ----------------------------------------------------------------- claims

IsBacktest(m) == m \in {"WEEKLY", "MARKET_BACKTEST"}
IsRun == mode \in Modes
Analysed == IsRun /\ download = "ok"

\* The data lines of the cache file: ticker, best_p and fit as text.
DataLines(f) == IF f.exists /\ f.lines # <<>> THEN Tail(f.lines) ELSE <<>>

\* The frame of the pass over targets[i].
DfOf(i) == Df(all_data, targets, targets[i])

\* -- C1 ------------------------------------------------------------------
\* C1: in a backtest run, the window reported and cached for a ticker is one
\* of the evaluated candidates, and its terminal capital is greater than or
\* equal to that of every other evaluated candidate.
C1_BestIsMaximal ==
    (Analysed /\ IsBacktest(mode)) =>
        \A i \in 1..Len(passes) :
            passes[i].kind = "row" =>
                LET b == passes[i].battle
                    e == passes[i].cached[1]
                IN  /\ e.best_p \in Elems(Windows)
                    /\ passes[i].row[1].p = WindowText(e.best_p)
                    /\ \E k \in 1..Len(b) :
                          /\ b[k][1] = e.best_p
                          /\ \A j \in 1..Len(b) :
                                j # k => FGeq(b[k][2], b[j][2])

\* -- C2 ------------------------------------------------------------------
\* The claim's own reading of the strategy: a trade is entered at a close
\* that crosses above the moving average and closed by the next close that
\* is no longer above it.
IsAbove(closes, p, i) == closes[i] * p > SumTo(closes, i - p + 1, i)

CrossesUp(closes, p, i) ==
    i > p /\ IsAbove(closes, p, i) /\ ~IsAbove(closes, p, i - 1)

\* The first row after i that is not above the average; 0 if there is none.
RECURSIVE ExitAfter(_, _, _)
ExitAfter(closes, p, i) ==
    IF i >= Len(closes) THEN 0
    ELSE IF ~IsAbove(closes, p, i + 1) THEN i + 1
    ELSE ExitAfter(closes, p, i + 1)

\* 100 times the product of (1 + return) over the trades entered at row i
\* or later and closed.
RECURSIVE ClosedProduct(_, _, _)
ClosedProduct(closes, p, i) ==
    IF i > Len(closes) THEN Frac(StartCapital, 1)
    ELSE IF CrossesUp(closes, p, i) /\ ExitAfter(closes, p, i) # 0
    THEN FMul(ClosedProduct(closes, p, i + 1),
              Frac(CostDen * closes[ExitAfter(closes, p, i)]
                     - CostNum * closes[i],
                   CostDen * closes[i]))
    ELSE ClosedProduct(closes, p, i + 1)

ClaimedCapital(closes, p) == ClosedProduct(closes, p, p)

EndsFlat(closes, p) == ~IsAbove(closes, p, Len(closes))

\* C2: the terminal capital of every evaluated window equals 100 times the
\* product of (1 + per-trade return) over all closed trades, each return
\* reduced by the cost 0.004.  Stated for the series that end with no
\* position open, where only closed trades can enter the product.
C2_CapitalIsClosedProduct ==
    (Analysed /\ IsBacktest(mode)) =>
        \A i \in 1..Len(passes) :
            \A k \in 1..Len(passes[i].battle) :
                LET p == passes[i].battle[k][1]
                    closes == Closes(DfOf(i))
                IN  EndsFlat(closes, p) =>
                        passes[i].battle[k][2] = ClaimedCapital(closes, p)

\* -- C3 ------------------------------------------------------------------
\* The window the analysis of targets[i] averages over: the smallest
\* candidate in a backtest, else the cached window, else 20.
WindowNeeded(i) ==
    IF IsBacktest(mode) THEN Windows[1]
    ELSE IF Len(Located(cache_df, targets[i])) = 1
    THEN Located(cache_df, targets[i])[1].best_p
    ELSE DefaultWindow

\* The data of targets[i] fails: none, or too little for the analysis.
DataFails(i) == DfOf(i) = <<>> \/ Len(DfOf(i)) < WindowNeeded(i)

IsErrorRow(r) == r.status = ErrorStatus /\ r.order_error # ""

\* C3: a target whose own data fails produces an error row with a message,
\* and every other target still produces its own normal row.
C3_FailuresAreRows ==
    Analysed =>
        \A i \in 1..Len(passes) :
            /\ DataFails(i) =>
                   passes[i].kind = "error" /\ IsErrorRow(passes[i].row[1])
            /\ ~DataFails(i) =>
                   passes[i].kind = "row" /\ ~IsErrorRow(passes[i].row[1])

\* -- C4 ------------------------------------------------------------------
\* C4: when the unified download raises or returns empty data, the run
\* returns exactly one error row per requested target, in list order, and
\* analyses no ticker.
C4_DownloadFailureIsFatal ==
    (IsRun /\ download \in {"raised", "empty"}) =>
        /\ Len(results) = Len(targets)
        /\ \A i \in 1..Len(targets) :
              /\ results[i].name = <<"FAILED: ">> \o targets[i]
              /\ results[i].sector = "ERROR"
              /\ IsErrorRow(results[i])
        /\ passes = <<>>
        /\ new_cache = <<>>

C4_Witness ==
    /\ IsRun
    /\ download \in {"raised", "empty"}
    /\ Len(targets) = 2
    /\ targets[1] # targets[2]
    /\ Len(results) = 2

\* -- C5 ------------------------------------------------------------------
\* C5: after a backtest run writes the gene cache, reading it back yields,
\* for every ticker written, the window and the fitness that were written.
C5_CacheRoundTrip ==
    (IsRun /\ new_cache # <<>>) =>
        \A j \in 1..Len(new_cache) :
            LET hits == Located(ReadCsv(gene_cache_file), new_cache[j].ticker)
            IN  /\ hits # <<>>
                /\ \A h \in 1..Len(hits) :
                      /\ hits[h].best_p = new_cache[j].best_p
                      /\ hits[h].fit = new_cache[j].fit

\* -- C6 ------------------------------------------------------------------
\* The list file the last run read.
ListFileRead ==
    IF ListFileOf(mode) = "MARKET_SCAN_LIST_FILE" THEN market_scan_list_file
    ELSE watchlist_file

IsCommentLine(l) == l # <<>> /\ Head(l) = HASH
IsBlankLine(l) == \A i \in 1..Len(l) : l[i] = SP

OnlyCommentsAndBlanks(f) ==
    \A i \in 1..Len(f.lines) :
        IsCommentLine(f.lines[i]) \/ IsBlankLine(f.lines[i])

\* C6: in every mode, a list file of only comment lines and blank lines
\* gives an empty result list, and no download is attempted.
C6_CommentsOnlyIsEmpty ==
    (IsRun /\ OnlyCommentsAndBlanks(ListFileRead)) =>
        /\ results = <<>>
        /\ download = "none"
        /\ targets = <<>>
        /\ all_data = <<>>

C6_Witness ==
    /\ IsRun
    /\ IsMarketScan(mode)
    /\ Len(ListFileRead.lines) = 2
    /\ \E i \in 1..2 : IsCommentLine(ListFileRead.lines[i])
    /\ \E i \in 1..2 : IsBlankLine(ListFileRead.lines[i])
    /\ results = <<>>

\* -- C7 ------------------------------------------------------------------
\* The data lines of the cache, as the last run found them, that record
\* ticker.  A run that is not a backtest leaves the file as it found it.
RecordsOf(ticker) ==
    LET Names(l) == l[1] = ticker
    IN  SelectSeq(DataLines(gene_cache_file), Names)

\* C7: on a run that is not a backtest, over a list that names no ticker
\* twice, a ticker with usable data that the run reports is reported with
\* the cached window and fitness when the cache holds a record of it,
\* classified against the average of that window, and with window 20 and
\* fitness "N/A" when it holds none.
C7_CachedWindowIsUsed ==
    (/\ Analysed
     /\ ~IsBacktest(mode)
     /\ Cardinality(Elems(targets)) = Len(targets)) =>
        \A i \in 1..Len(passes) :
            (DfOf(i) # <<>> /\ passes[i].kind # "skip") =>
                LET recs == RecordsOf(targets[i])
                    row == passes[i].row[1]
                IN  /\ passes[i].kind = "row"
                    /\ recs = <<>> =>
                          /\ row.p = WindowText(DefaultWindow)
                          /\ row.fit = NotAvailable
                    /\ \A r \in 1..Len(recs) :
                          /\ row.p = recs[r][2] \o <<"d">>
                          /\ row.fit = recs[r][3]
                          /\ row.status =
                                StatusOf(DfOf(i), StrToInt(recs[r][2]))

\* -- C8 ------------------------------------------------------------------
\* The passes of a run's loop over ticker.
PassesOver(pp, tg, ticker) ==
    {pp[i] : i \in {j \in 1..Len(pp) : tg[j] = ticker}}

\* The pass reached the backtest: it holds the returns of every window.
Backtested(pass) == pass.trade_profits # <<>>

C9_OneRecordPerTicker ==
    LET lines == DataLines(gene_cache_file)
    IN  \A i, j \in 1..Len(lines) :
            (i # j /\ lines[i][1] # <<>>) => lines[i][1] # lines[j][1]

\* -- C10 -----------------------------------------------------------------
\* How often a line occurs among the data lines of a cache file.
Count(f, line) ==
    Cardinality({i \in 1..Len(DataLines(f)) : DataLines(f)[i] = line})

\* C10: a run changes the cache record of a ticker only if it is a backtest
\* run that backtested the ticker; every other record, and the whole cache
\* in every other run, stays as it was.
C10_OnlyBacktestedRecordsChange ==
    [][ LET written == {new_cache'[j].ticker : j \in 1..Len(new_cache')}
            old == DataLines(gene_cache_file)
            new == DataLines(gene_cache_file')
        IN  /\ \A i \in 1..Len(old) :
                  old[i][1] \notin written =>
                      Count(gene_cache_file', old[i])
                        = Count(gene_cache_file, old[i])
            /\ \A i \in 1..Len(new) :
                  new[i][1] \notin written =>
                      Count(gene_cache_file', new[i])
                        = Count(gene_cache_file, new[i])
            /\ (mode' \notin {"WEEKLY", "MARKET_BACKTEST"}
                  \/ download' # "ok") => new = old
      ]_vars

=============================================================================
